---- MODULE Spec2Model ----
(***************************************************************************)
(* Model of streamlit_app.py: the Google News scraper.                     *)
(*                                                                         *)
(* One request cycle of main(): configure_sidebar() yields the query       *)
(* parameters, scrape_google_news() fetches and normalises the articles    *)
(* into a DataFrame, display_news_data() decorates a copy for the grid and *)
(* produces the CSV / Excel exports.  fetch_preview() is modelled both as  *)
(* the helper applied to every row and as a function called on its own.    *)
(*                                                                         *)
(* Python values: text is a TLA+ string, None is the sentinel None, a      *)
(* parsed timestamp is an integer yyyymmdd and NaT is the integer NaT.     *)
(* A DataFrame is [columns |-> sequence of names, rows |-> sequence of     *)
(* [idx |-> index label, cells |-> function from column name to value]].   *)
(***************************************************************************)
EXTENDS Integers, Sequences, FiniteSets, TLC

VARIABLES pc, params, web, result, news_df, log, st, requests, propagated,
          grid_df, csv, excel, url, preview

vars == <<pc, params, web, result, news_df, log, st, requests, propagated,
          grid_df, csv, excel, url, preview>>

----------------------------------------------------------------------------
(* Bounds of the model *)

\* longest raw article sequence the provider returns in the request cycle
MaxLen == 2
\* longest raw article sequence when scrape_google_news is called directly
CoreMaxLen == 1
\* longest page text / meta description handed to fetch_preview on its own
MaxTextLen == 152

----------------------------------------------------------------------------
(* Program constants *)

\* text[:150], content[:150]
PreviewLen == 150
\* st.sidebar.slider("Maximum Results", min_value=1, max_value=100, ...)
SliderMin == 1
SliderMax == 100

None == "<None>"
NaT == 0
Placeholder == "No preview available."
Ellipsis == "..."

LinkUrl == "http://l"
PublisherUrl == "http://a"
PublisherName == "A"
Urls == {LinkUrl, PublisherUrl}

----------------------------------------------------------------------------
(* Text helpers *)

Min(a, b) == IF a < b THEN a ELSE b

\* Python slice s[:k]
Slice(s, k) == SubSeq(s, 1, Min(k, Len(s)))

\* a text of n characters (n <= 200) whose characters vary with the position
Text(n) ==
    Slice("abcdefghijabcdefghijabcdefghijabcdefghijabcdefghijabcdefghijabcdefghijabcdefghijabcdefghijabcdefghij"
          \o "abcdefghijabcdefghijabcdefghijabcdefghijabcdefghijabcdefghijabcdefghijabcdefghijabcdefghijabcdefghij", n)

\* Python str(v) as used by an f-string
Str(v) == IF v = None THEN "None" ELSE v

----------------------------------------------------------------------------
(* The web as seen by requests.get / BeautifulSoup *)

Response(status, has_meta, content, text) ==
    [status |-> status, has_meta |-> has_meta, content |-> content, text |-> text]

Failures == {"timeout", "http_error", "parse_error"}
FailureResponses == {Response(f, FALSE, "", "") : f \in Failures}

\* pages served during a request cycle: unreachable, blank page, described page
WebResponses == {Response("timeout", FALSE, "", ""),
                 Response("ok", FALSE, "", ""),
                 Response("ok", TRUE, "abc", "abcabc")}

\* pages handed to fetch_preview on its own: lengths around the 150 limit
TextLens == {0, 1, PreviewLen - 1, PreviewLen, PreviewLen + 1, MaxTextLen}
PreviewResponses ==
    FailureResponses
    \cup {Response("ok", FALSE, "", Text(t)) : t \in TextLens}
    \cup {Response("ok", TRUE, Text(m), Text(t)) : m \in TextLens, t \in TextLens}

\* a handler that lets the exception leave fetch_preview
PreviewReraise == [ret |-> "", raised |-> TRUE, logged |-> TRUE]

\* except Exception as e: logging.error(...); return "No preview available."
PreviewOnException == [ret |-> Placeholder, raised |-> FALSE, logged |-> TRUE]

\* the body of the try block, for a response that arrived and parsed
PreviewOfPage(r) ==
    IF r.has_meta /\ r.content # ""
    THEN [ret |-> Slice(r.content, PreviewLen) \o Ellipsis, raised |-> FALSE, logged |-> FALSE]
    ELSE [ret |-> IF Len(r.text) > PreviewLen
                  THEN Slice(r.text, PreviewLen) \o Ellipsis
                  ELSE r.text,
          raised |-> FALSE, logged |-> FALSE]

\* fetch_preview(url): requests.get raises on a missing URL, a timeout or a
\* non-2xx status (raise_for_status); every Exception reaches the handler
fetch_preview(u, w) ==
    IF u = None \/ u \notin DOMAIN w THEN PreviewOnException
    ELSE IF w[u].status # "ok" THEN PreviewOnException
    ELSE PreviewOfPage(w[u])


----------------------------------------------------------------------------
(* Raw records returned by GNews.get_news *)

\* keys of a raw record in the order the provider emits them; every record
\* of one batch carries the same keys
KeyOrder == <<"title", "published date", "link", "publisher">>
OptionalKeys == {"published date", "link", "publisher"}
Schemas == {{"title"} \cup s : s \in SUBSET OptionalKeys}

\* a publisher value: a dict, a str or None
PyObj(type, href, title, value) ==
    [type |-> type, href |-> href, title |-> title, value |-> value]
PublisherDict == PyObj("dict", PublisherUrl, PublisherName, "")
PublisherJson == "{\"href\": \"http://a\", \"title\": \"A\"}"
PublisherValues == {PublisherDict,
                    PyObj("str", "", "", PublisherJson),
                    PyObj("str", "", "", "not valid json"),
                    PyObj("NoneType", "", "", "")}

DateValues == {"2023-06-01", "2023-06-03", "bad-date"}

Article(schema, d, p) ==
    [k \in schema |-> CASE k = "title" -> "Headline"
                        [] k = "published date" -> d
                        [] k = "link" -> LinkUrl
                        [] k = "publisher" -> p]

RawArticles(schema) == {Article(schema, d, p) : d \in DateValues, p \in PublisherValues}

\* the raw sequences of at most n records
RawResults(n) ==
    UNION {UNION {[1..k -> RawArticles(s)] : k \in 0..n} : s \in Schemas}

\* google_news.get_news(query): raises, or returns at most max_results records
GetNews(p, n) ==
    {[kind |-> "error", articles |-> <<>>]}
    \cup {[kind |-> "ok", articles |-> a] :
            a \in RawResults(Min(n, IF p.max_results < 0 THEN 0 ELSE p.max_results))}

----------------------------------------------------------------------------
(* pandas *)

\* pd.DataFrame()
EmptyDataFrame == [columns |-> <<>>, rows |-> <<>>]

\* pd.DataFrame(result): one column per key, one row per record, RangeIndex
DataFrame(articles) ==
    [columns |-> SelectSeq(KeyOrder, LAMBDA k : k \in DOMAIN articles[1]),
     rows    |-> [i \in 1..Len(articles) |-> [idx |-> i - 1, cells |-> articles[i]]]]

HasColumn(df, c) == \E i \in 1..Len(df.columns) : df.columns[i] = c

\* DataFrame.empty: no rows or no columns
IsEmpty(df) == Len(df.rows) = 0 \/ Len(df.columns) = 0

\* pd.to_datetime(..., errors='coerce') of one value
to_datetime(s) ==
    CASE s = "2023-06-01" -> 20230601
      [] s = "2023-06-03" -> 20230603
      [] OTHER -> NaT

\* news_df[c] = values, for an existing column c (one value per row)
SetColumn(df, c, values) ==
    [df EXCEPT !.rows = [i \in 1..Len(df.rows) |->
        [df.rows[i] EXCEPT !.cells = [@ EXCEPT ![c] = values[i]]]]]

\* news_df[c] = values, for a new column c (one value per row)
AddColumn(df, c, values) ==
    [columns |-> Append(df.columns, c),
     rows    |-> [i \in 1..Len(df.rows) |->
        [df.rows[i] EXCEPT !.cells =
            [k \in DOMAIN df.rows[i].cells \cup {c} |->
                IF k = c THEN values[i] ELSE df.rows[i].cells[k]]]]]

\* pd.to_datetime(news_df['published date'], errors='coerce')
ParsedDates(df) ==
    [i \in 1..Len(df.rows) |-> to_datetime(df.rows[i].cells["published date"])]

\* news_df.drop(columns=[c])
DropColumn(df, c) ==
    [columns |-> SelectSeq(df.columns, LAMBDA k : k # c),
     rows    |-> [i \in 1..Len(df.rows) |->
        [df.rows[i] EXCEPT !.cells =
            [k \in DOMAIN df.rows[i].cells \ {c} |-> df.rows[i].cells[k]]]]]

\* a dropna that keeps every row
DropNaKeepAll(df) == df

\* news_df.dropna(subset=['published date'])
DropNa(df) ==
    [df EXCEPT !.rows = SelectSeq(df.rows, LAMBDA r : r.cells["published date"] # NaT)]

IndexOrders(n) == {p \in [1..n -> 1..n] : \A i, j \in 1..n : i # j => p[i] # p[j]}

\* a sort in ascending order
SortValuesAscending(df) ==
    LET n == Len(df.rows)
        key(i) == df.rows[i].cells["published date"]
    IN  {[df EXCEPT !.rows = [i \in 1..n |-> df.rows[p[i]]]] :
            p \in {q \in IndexOrders(n) :
                     \A i \in 1..n - 1 : key(q[i]) <= key(q[i + 1])}}

\* news_df.sort_values(by='published date', ascending=False): the default
\* kind is 'quicksort', which is not a stable sort, so every descending
\* arrangement of the rows is a possible outcome
SortValues(df) ==
    LET n == Len(df.rows)
        key(i) == df.rows[i].cells["published date"]
    IN  {[df EXCEPT !.rows = [i \in 1..n |-> df.rows[p[i]]]] :
            p \in {q \in IndexOrders(n) :
                     \A i \in 1..n - 1 : key(q[i]) >= key(q[i + 1])}}


----------------------------------------------------------------------------
(* scrape_google_news *)

LogEntry(level, event, index) == [level |-> level, event |-> event, index |-> index]

\* the log records written while iterating over the rows: entries[i] is
\* [written |-> whether row i logs, entry |-> its record]
RowLog(entries) ==
    LET kept == SelectSeq(entries, LAMBDA e : e.written)
    IN  [i \in 1..Len(kept) |-> kept[i].entry]

\* lines 76-83: parse, drop and sort by 'published date', when the column exists
ParseDates(df) ==
    IF HasColumn(df, "published date")
    THEN SortValues(DropNa(SetColumn(df, "published date", ParsedDates(df))))
    ELSE {df}

ParseDatesLog(df) ==
    IF HasColumn(df, "published date")
    THEN <<LogEntry("INFO", "sorted", -1)>>
    ELSE <<LogEntry("WARNING", "no published date column", -1)>>

\* json.loads(publisher_info)
JsonLoads(s) ==
    IF s = PublisherJson THEN [ok |-> TRUE, value |-> PublisherDict]
    ELSE [ok |-> FALSE, value |-> PyObj("NoneType", "", "", "")]

\* an iteration that stores href as the name and title as the URL
ParsePublisherRowSwapped(row) ==
    LET info == row.cells["publisher"]
    IN  CASE info.type = "str" ->
               IF JsonLoads(info.value).ok
               THEN [url  |-> JsonLoads(info.value).value.title,
                     name |-> JsonLoads(info.value).value.href,
                     err  |-> "none"]
               ELSE [url |-> None, name |-> None, err |-> "JSONDecodeError"]
          [] info.type = "dict" ->
               [url |-> info.title, name |-> info.href, err |-> "none"]
          [] OTHER ->
               [url |-> None, name |-> None, err |-> "ValueError"]

\* lines 92-111: one iteration of the iterrows loop; the two new cells stay
\* None when the try block raises
ParsePublisherRow(row) ==
    LET info == row.cells["publisher"]
    IN  CASE info.type = "str" ->
               IF JsonLoads(info.value).ok
               THEN [url  |-> JsonLoads(info.value).value.href,
                     name |-> JsonLoads(info.value).value.title,
                     err  |-> "none"]
               ELSE [url |-> None, name |-> None, err |-> "JSONDecodeError"]
          [] info.type = "dict" ->
               [url |-> info.href, name |-> info.title, err |-> "none"]
          [] OTHER ->
               [url |-> None, name |-> None, err |-> "ValueError"]

\* the values news_df.at[index, ...] leaves in the two new columns
PublisherUrls(df) == [i \in 1..Len(df.rows) |-> ParsePublisherRow(df.rows[i]).url]
PublisherNames(df) == [i \in 1..Len(df.rows) |-> ParsePublisherRow(df.rows[i]).name]

\* lines 85-117: flatten 'publisher' into two columns and drop it
ParsePublisher(df) ==
    IF HasColumn(df, "publisher")
    THEN DropColumn(AddColumn(AddColumn(df, "url_of_publisher", PublisherUrls(df)),
                              "name_of_publisher", PublisherNames(df)),
                    "publisher")
    ELSE df

ParsePublisherLog(df) ==
    IF HasColumn(df, "publisher")
    THEN RowLog([i \in 1..Len(df.rows) |->
                    [written |-> ParsePublisherRow(df.rows[i]).err # "none",
                     entry   |-> LogEntry("ERROR", ParsePublisherRow(df.rows[i]).err,
                                          df.rows[i].idx)]])
         \o <<LogEntry("INFO", "publisher parsed", -1)>>
    ELSE <<LogEntry("WARNING", "no publisher column", -1)>>

\* lines 119-123: news_df[c].apply(fetch_preview)
Previews(df, c, w) ==
    [i \in 1..Len(df.rows) |-> fetch_preview(df.rows[i].cells[c], w).ret]

AddPreviews(df, w) ==
    LET df1 == IF HasColumn(df, "link")
               THEN AddColumn(df, "link_preview", Previews(df, "link", w))
               ELSE df
    IN  IF HasColumn(df1, "url_of_publisher")
        THEN AddColumn(df1, "publisher_preview", Previews(df1, "url_of_publisher", w))
        ELSE df1

PreviewLog(df, w) ==
    LET calls(c) == IF HasColumn(df, c)
                    THEN RowLog([i \in 1..Len(df.rows) |->
                                    [written |-> fetch_preview(df.rows[i].cells[c], w).logged,
                                     entry   |-> LogEntry("ERROR", "preview", df.rows[i].idx)]])
                    ELSE <<>>
    IN  calls("link") \o calls("url_of_publisher")

\* an exception leaving fetch_preview inside DataFrame.apply
PreviewRaised(df, w) ==
    \E c \in {"link", "url_of_publisher"} :
        /\ HasColumn(df, c)
        /\ \E i \in 1..Len(df.rows) : fetch_preview(df.rows[i].cells[c], w).raised

\* a handler that re-raises instead of returning an empty table
OnScrapeExceptionReraise(lg) ==
    [news_df |-> EmptyDataFrame,
     log |-> Append(lg, LogEntry("ERROR", "scrape", -1)),
     st |-> {},
     propagated |-> TRUE]

\* lines 126-129: the handler of the function's try block
OnScrapeException(lg) ==
    [news_df |-> EmptyDataFrame,
     log |-> Append(lg, LogEntry("ERROR", "scrape", -1)),
     st |-> {"error"},
     propagated |-> FALSE]

\* lines 74-125, for one outcome of the sort
Normalize(sorted, lg, w) ==
    LET flat == ParsePublisher(sorted)
        lg1  == lg \o ParsePublisherLog(sorted)
    IN  IF PreviewRaised(flat, w)
        THEN OnScrapeException(lg1 \o PreviewLog(flat, w))
        ELSE [news_df |-> AddPreviews(flat, w),
              log |-> lg1 \o PreviewLog(flat, w),
              st |-> {},
              propagated |-> FALSE]

\* scrape_google_news(query, start_date, end_date, max_results): the set of
\* its possible outcomes for the provider's answer res and the web w
scrape_google_news(p, res, w) ==
    LET lg == <<LogEntry("INFO", "start", -1)>>
    IN  IF res.kind = "error" THEN {OnScrapeException(lg)}
        ELSE IF res.articles = <<>>
        THEN {[news_df |-> EmptyDataFrame,
               log |-> Append(lg, LogEntry("WARNING", "no articles", -1)),
               st |-> {},
               propagated |-> FALSE]}
        ELSE {Normalize(sorted, lg \o ParseDatesLog(DataFrame(res.articles)), w) :
                sorted \in ParseDates(DataFrame(res.articles))}

----------------------------------------------------------------------------
(* Exports and display_news_data *)

FormatTimestamp(t) ==
    CASE t = 20230601 -> "2023-06-01"
      [] t = 20230603 -> "2023-06-03"
      [] OTHER -> ""

\* the text DataFrame.to_csv writes for one cell: missing values are empty
CsvCell(c, v) ==
    IF c = "published date"
    THEN FormatTimestamp(v)
    ELSE IF v = None THEN "" ELSE v

\* the cells of the table, row by row in column order
Cells(df) ==
    [i \in 1..Len(df.rows) |->
        [c \in 1..Len(df.columns) |-> df.rows[i].cells[df.columns[c]]]]

\* the lines of text to_csv writes for the rows
CsvLines(df) ==
    [i \in 1..Len(df.rows) |->
        [c \in 1..Len(df.columns) |-> CsvCell(df.columns[c], Cells(df)[i][c])]]

NoExport == [exported |-> FALSE, sheet |-> "", header |-> <<>>, lines |-> <<>>]

\* news_df.to_csv(index=False): the header line, then one line per row
to_csv(df) ==
    [exported |-> TRUE, sheet |-> "", header |-> df.columns, lines |-> CsvLines(df)]

\* generate_excel_download(df): sheet 'GoogleNews', index=False
generate_excel_download(df) ==
    [exported |-> TRUE, sheet |-> "GoogleNews", header |-> df.columns,
     lines |-> Cells(df)]

\* lines 219-226: the f-strings that replace the two URL columns
LinkAnchor(row) ==
    "<a href=\"" \o Str(row.cells["link"]) \o "\" target=\"_blank\" title=\""
        \o Str(row.cells["link_preview"]) \o "\">Link</a>"
PublisherAnchor(row) ==
    "<a href=\"" \o Str(row.cells["url_of_publisher"]) \o "\" target=\"_blank\" title=\""
        \o Str(row.cells["publisher_preview"]) \o "\">Publisher URL</a>"

Decorate(df) ==
    LET d1 == IF HasColumn(df, "link")
              THEN SetColumn(df, "link", [i \in 1..Len(df.rows) |-> LinkAnchor(df.rows[i])])
              ELSE df
    IN  IF HasColumn(d1, "url_of_publisher")
        THEN SetColumn(d1, "url_of_publisher",
                       [i \in 1..Len(d1.rows) |-> PublisherAnchor(d1.rows[i])])
        ELSE d1

\* display_news_data without the early return for an empty table
DisplayWithoutEmptyCheck(df) ==
    [news_df |-> df, grid_df |-> Decorate(df), st |-> {},
     csv |-> to_csv(df), excel |-> generate_excel_download(df)]

\* display_news_data with the decoration applied to news_df itself
DisplayInPlace(df) ==
    IF IsEmpty(df)
    THEN [news_df |-> df, grid_df |-> EmptyDataFrame, st |-> {"info"},
          csv |-> NoExport, excel |-> NoExport]
    ELSE [news_df |-> Decorate(df), grid_df |-> Decorate(df), st |-> {},
          csv |-> to_csv(Decorate(df)), excel |-> generate_excel_download(Decorate(df))]

\* display_news_data(news_df): grid_df = news_df.copy() is decorated and
\* shown; the exports are written from news_df
display_news_data(df) ==
    IF IsEmpty(df)
    THEN [news_df |-> df, grid_df |-> EmptyDataFrame, st |-> {"info"},
          csv |-> NoExport, excel |-> NoExport]
    ELSE [news_df |-> df, grid_df |-> Decorate(df), st |-> {},
          csv |-> to_csv(df), excel |-> generate_excel_download(df)]


----------------------------------------------------------------------------
(* Query parameters *)

\* calendar days of the date pickers
Days == {1, 2}

\* configure_sidebar(): the end-date picker has min_value=start_date and the
\* slider runs from 1 to 100
SidebarInputs ==
    {p \in [start_date : Days, end_date : Days, max_results : {SliderMin, SliderMax}] :
        p.end_date >= p.start_date}

\* the arguments a caller can pass to scrape_google_news
ParamSpace ==
    [start_date : Days, end_date : Days,
     max_results : {SliderMin - 1, SliderMin, SliderMax, SliderMax + 1}]

ValidConfig(p) ==
    /\ p.start_date <= p.end_date
    /\ SliderMin <= p.max_results /\ p.max_results <= SliderMax

NoParams == [start_date |-> 1, end_date |-> 1, max_results |-> SliderMin]
NoResult == [kind |-> "none", articles |-> <<>>]

----------------------------------------------------------------------------
(* State machine *)

InitCommon ==
    /\ pc = "start"
    /\ params = NoParams
    /\ result = NoResult
    /\ news_df = EmptyDataFrame
    /\ log = <<>>
    /\ st = {}
    /\ requests = 0
    /\ propagated = FALSE
    /\ grid_df = EmptyDataFrame
    /\ csv = NoExport
    /\ excel = NoExport
    /\ preview = PreviewOnException

Init ==
    /\ InitCommon
    /\ web \in [Urls -> WebResponses]
    /\ url = None

\* main(), line 277: user_inputs = configure_sidebar()
ConfigureSidebar ==
    /\ pc = "start"
    /\ params' \in SidebarInputs
    /\ pc' = "configured"
    /\ UNCHANGED <<web, result, news_df, log, st, requests, propagated,
                   grid_df, csv, excel, url, preview>>

\* the effect of one call of scrape_google_news with arguments p
Scrape(p, n) ==
    \E res \in GetNews(p, n) :
        \E out \in scrape_google_news(p, res, web) :
            /\ result' = res
            /\ requests' = requests + 1
            /\ news_df' = out.news_df
            /\ log' = log \o out.log
            /\ st' = st \cup out.st
            /\ propagated' = out.propagated

\* main(), lines 279-286: the button runs scrape_google_news(**user_inputs)
ScrapeNews ==
    /\ pc = "configured"
    /\ Scrape(params, MaxLen)
    /\ pc' = "scraped"
    /\ UNCHANGED <<params, web, grid_df, csv, excel, url, preview>>

\* main(), line 288: display_news_data(news_df)
DisplayNewsData ==
    /\ pc = "scraped"
    /\ ~propagated
    /\ LET out == display_news_data(news_df)
       IN  /\ news_df' = out.news_df
           /\ grid_df' = out.grid_df
           /\ csv' = out.csv
           /\ excel' = out.excel
           /\ st' = st \cup out.st
    /\ pc' = "displayed"
    /\ UNCHANGED <<params, web, result, log, requests, propagated, url, preview>>

Next == ConfigureSidebar \/ ScrapeNews \/ DisplayNewsData

Spec == Init /\ [][Next]_vars

\* scrape_google_news called with arbitrary arguments
CallScrape ==
    /\ pc = "start"
    /\ \E p \in ParamSpace :
         /\ params' = p
         /\ Scrape(p, CoreMaxLen)
    /\ pc' = "returned"
    /\ UNCHANGED <<web, grid_df, csv, excel, url, preview>>

NextCore == CallScrape

SpecCore == Init /\ [][NextCore]_vars

\* fetch_preview called on one URL
InitPreview ==
    /\ InitCommon
    /\ web \in [{LinkUrl} -> PreviewResponses]
    /\ url \in {None, LinkUrl}

FetchPreview ==
    /\ pc = "start"
    /\ preview' = fetch_preview(url, web)
    /\ log' = IF fetch_preview(url, web).logged
              THEN Append(log, LogEntry("ERROR", "preview", -1)) ELSE log
    /\ propagated' = fetch_preview(url, web).raised
    /\ pc' = "previewed"
    /\ UNCHANGED <<params, web, result, news_df, st, requests, grid_df, csv, excel, url>>

NextPreview == FetchPreview

SpecPreview == InitPreview /\ [][NextPreview]_vars


----------------------------------------------------------------------------
(* Vocabulary of the properties *)

Ok == result.kind = "ok"
Raw == result.articles
RawHas(k) == Len(Raw) > 0 /\ k \in DOMAIN Raw[1]
Rows == news_df.rows
Parses(a) == to_datetime(a["published date"]) # NaT
ValidDates == {i \in 1..Len(Raw) : Parses(Raw[i])}
RowIdx == {Rows[i].idx + 1 : i \in 1..Len(Rows)}
\* the raw record a row of the table was built from
RawOf(row) == Raw[row.idx + 1]
Logged(level, event, index) ==
    \E i \in 1..Len(log) : log[i] = LogEntry(level, event, index)

----------------------------------------------------------------------------
(* C1: unparseable dates are dropped *)

----------------------------------------------------------------------------
(* C2: descending order *)

Key(i) == Rows[i].cells["published date"]

\* C2 as stated: with at least two validly dated records the table is in
\* descending timestamp order and rows with equal timestamps keep the
\* relative order they had in the raw sequence.
C2_AsStated ==
    (pc = "scraped" /\ Ok /\ RawHas("published date") /\ Cardinality(ValidDates) >= 2) =>
        \A i, j \in 1..Len(Rows) :
            i < j => \/ Key(i) > Key(j)
                     \/ Key(i) = Key(j) /\ Rows[i].idx < Rows[j].idx

\* C2 (amended): with at least two validly dated records the table is in
\* descending timestamp order; the order among equal timestamps is not fixed.
C2_SortedDescending ==
    (pc = "scraped" /\ Ok /\ RawHas("published date") /\ Cardinality(ValidDates) >= 2) =>
        /\ Len(Rows) >= 2
        /\ \A i, j \in 1..Len(Rows) : i < j => Key(i) >= Key(j)

C2_Witness ==
    /\ pc = "scraped" /\ Ok /\ RawHas("published date")
    /\ Len(Rows) = 2
    /\ Rows[1].idx = 1 /\ Rows[2].idx = 0
    /\ Key(1) > Key(2)

----------------------------------------------------------------------------
(* C3: publisher flattening *)

\* the rows that survive the date step
Survivors == IF RawHas("published date") THEN ValidDates ELSE 1..Len(Raw)

Flattened(row, u, n) ==
    /\ HasColumn(news_df, "url_of_publisher")
    /\ HasColumn(news_df, "name_of_publisher")
    /\ row.cells["url_of_publisher"] = u
    /\ row.cells["name_of_publisher"] = n

----------------------------------------------------------------------------
(* C4: invalid configuration *)

\* C4: whenever start_date > end_date or max_results is outside 1..100, no
\* request is sent to the news provider and the caller is told of the
\* rejection.
C4_InvalidConfigRejected ==
    (pc = "returned" /\ ~ValidConfig(params)) =>
        /\ requests = 0
        /\ "error" \in st

----------------------------------------------------------------------------
(* C5: fetch failures *)

\* C5: an error raised by the provider during scrape_google_news yields an
\* empty table and a reported error, does not reach main, and the request
\* cycle goes on to display_news_data and ends there.
C5_FetchErrorContained ==
    (pc \in {"scraped", "displayed"} /\ result.kind = "error") =>
        /\ news_df = EmptyDataFrame
        /\ "error" \in st
        /\ Logged("ERROR", "scrape", -1)
        /\ ~propagated
        /\ pc = "scraped" => ENABLED DisplayNewsData
        /\ pc = "displayed" => "info" \in st /\ csv = NoExport

C5_Witness ==
    /\ pc = "displayed" /\ result.kind = "error"
    /\ requests = 1
    /\ st = {"error", "info"}

----------------------------------------------------------------------------
(* C6, C7: fetch_preview *)

PreviewFailed == url = None \/ web[url].status \in Failures

\* C6: whenever the fetch fails (timeout, non-2xx status, parse error,
\* missing URL) fetch_preview returns exactly "No preview available." and
\* no error leaves the function.
C6_FailureGivesPlaceholder ==
    (pc = "previewed" /\ PreviewFailed) =>
        /\ preview.ret = Placeholder
        /\ ~preview.raised
        /\ ~propagated

C6_Witness ==
    /\ pc = "previewed"
    /\ url = LinkUrl /\ web[url].status = "timeout"
    /\ preview.ret = "No preview available."
    /\ Logged("ERROR", "preview", -1)

\* text cut to 150 characters, with the ellipsis only when it was cut
Truncated(t) == IF Len(t) > PreviewLen THEN Slice(t, PreviewLen) \o Ellipsis ELSE t

\* C7: on a successful fetch the preview is the meta description cut to 150
\* characters with "..." appended only if it was cut; without a meta
\* description it is the visible text under the same rule.
C7_SnippetTruncation ==
    (pc = "previewed" /\ ~PreviewFailed) =>
        IF web[url].has_meta /\ web[url].content # ""
        THEN preview.ret = Truncated(web[url].content)
        ELSE preview.ret = Truncated(web[url].text)

----------------------------------------------------------------------------
(* C8: empty raw sequence *)

\* the field names of the normalised table
FieldNames == <<"title", "published date", "link", "url_of_publisher",
                "name_of_publisher", "link_preview", "publisher_preview">>

\* C8 as stated: an empty raw sequence gives an empty table with no error
\* reported, and the CSV export of it is the header row of field names only.
C8_AsStated ==
    (pc = "displayed" /\ Ok /\ Raw = <<>>) =>
        /\ IsEmpty(news_df)
        /\ "error" \notin st
        /\ csv.exported
        /\ csv.header = FieldNames
        /\ csv.lines = <<>>

\* C8 (amended): an empty raw sequence gives an empty table (no rows, no
\* columns) with no error reported; display_news_data then shows the
\* "No news articles to display." notice and produces no CSV or Excel export.
C8_EmptyRawNoExport ==
    (pc \in {"scraped", "displayed"} /\ Ok /\ Raw = <<>>) =>
        /\ news_df = EmptyDataFrame
        /\ "error" \notin st
        /\ Logged("WARNING", "no articles", -1)
        /\ pc = "displayed" =>
              /\ "info" \in st
              /\ ~csv.exported
              /\ ~excel.exported

C8_Witness ==
    /\ pc = "displayed" /\ Ok /\ Raw = <<>>
    /\ st = {"info"}
    /\ csv = NoExport

----------------------------------------------------------------------------
(* C9: previews always populated *)

\* C9: after a successful fetch every row of the table has a non-empty
\* link_preview and a non-empty publisher_preview (stated for the batches
\* whose records carry both a link and a publisher, the case in which the
\* code creates the two preview fields).
C9_PreviewsPopulated ==
    (pc = "scraped" /\ Ok /\ RawHas("link") /\ RawHas("publisher")) =>
        /\ HasColumn(news_df, "link_preview")
        /\ HasColumn(news_df, "publisher_preview")
        /\ \A i \in 1..Len(Rows) :
              /\ Rows[i].cells["link_preview"] # ""
              /\ Rows[i].cells["publisher_preview"] # ""

----------------------------------------------------------------------------
(* C10: the table is not changed by display_news_data *)

IsAnchor(v) == Len(v) >= 8 /\ SubSeq(v, 1, 8) = "<a href="

\* the cells of column c in the lines of an export
ExportColumn(export, c) ==
    LET at == CHOOSE k \in 1..Len(export.header) : export.header[k] = c
    IN  [i \in 1..Len(export.lines) |-> export.lines[i][at]]

\* C10: display_news_data leaves the table as it was, puts the clickable
\* links into the grid's copy only, and writes the CSV and Excel exports
\* from the table's own link and url_of_publisher values.
C10_TableUnchangedByDisplay ==
    [][(pc = "scraped" /\ pc' = "displayed") =>
        /\ news_df' = news_df
        /\ ~IsEmpty(news_df) =>
            /\ csv'.exported /\ excel'.exported
            /\ csv'.header = news_df.columns
            /\ Len(csv'.lines) = Len(Rows) /\ Len(excel'.lines) = Len(Rows)
            /\ \A c \in {"link", "url_of_publisher"} :
                 HasColumn(news_df, c) =>
                   \A i \in 1..Len(Rows) :
                      /\ ExportColumn(csv', c)[i] =
                            (IF Rows[i].cells[c] = None THEN "" ELSE Rows[i].cells[c])
                      /\ ExportColumn(excel', c)[i] = Rows[i].cells[c]
                      /\ IsAnchor(grid_df'.rows[i].cells[c])
                      /\ ~IsAnchor(Rows[i].cells[c])]_vars

C10_Witness ==
    /\ pc = "displayed" /\ csv.exported
    /\ HasColumn(news_df, "link") /\ HasColumn(news_df, "url_of_publisher")
    /\ Rows[1].cells["link"] = LinkUrl
    /\ ExportColumn(csv, "link")[1] = LinkUrl
    /\ IsAnchor(grid_df.rows[1].cells["link"])
    /\ IsAnchor(grid_df.rows[1].cells["url_of_publisher"])

====
